---- MODULE Spec2Model ----
(***************************************************************************)
(* Model of the decisionrules-poc HTTP service (src/index.ts, the last of  *)
(* the three revisions the file holds, lines 288-549): the request router  *)
(* of Bun.serve's fetch handler, the /rules fan-out over the three rule    *)
(* calls of every part, the /flow and /flow?batch=true calls, and the      *)
(* response merger (mergeInputWithFlowPayload, pairInputsWithResponses).   *)
(*                                                                         *)
(* JSON values are tagged records, so that values of different JavaScript  *)
(* types can be compared:                                                  *)
(*   [t |-> "null"], [t |-> "undefined"], [t |-> "num", n |-> 3],          *)
(*   [t |-> "str", s |-> "a"], [t |-> "bool", b |-> TRUE],                 *)
(*   [t |-> "obj", f |-> (function from keys to values)],                  *)
(*   [t |-> "arr", e |-> (sequence of values)].                            *)
(* Numbers are integers: the arithmetic of the model is exact where the    *)
(* program's is IEEE double arithmetic.                                    *)
(*                                                                         *)
(* One request is followed from its arrival to the settling of its last    *)
(* remote call; requests share no state. The elements of a body array are  *)
(* Part records. The logging functions (logDecisionRulesError,             *)
(* logDecisionRulesResponse) write to the console only and are left out.   *)
(***************************************************************************)
EXTENDS Integers, Sequences, FiniteSets, TLC

\* Largest number of parts in a request body.
MaxParts == 2

----------------------------------------------------------------------------
\* JSON / JavaScript values

Null == [t |-> "null"]

Undefined == [t |-> "undefined"]

Num(n) == [t |-> "num", n |-> n]

Str(s) == [t |-> "str", s |-> s]

Bool(b) == [t |-> "bool", b |-> b]

Obj(f) == [t |-> "obj", f |-> f]

Arr(e) == [t |-> "arr", e |-> e]

\* The object with no field, {}.
EmptyObj == Obj([k \in {} |-> Null])

\* Array.isArray(value)
IsArray(value) == value.t = "arr"

\* value ?? other
Nullish(value) == value.t \in {"null", "undefined"}

\* obj?.key for a value parsed from JSON: undefined unless obj is a record
\* that has the key.
Get(value, key) ==
  IF value.t = "obj" /\ key \in DOMAIN value.f THEN value.f[key] ELSE Undefined

\* A variant of SpreadWithInput that writes the input key first, so that an
\* input field of the payload survives: { input: effectiveInput, ...payload }.
SpreadInputFirst(payload, effectiveInput) ==
  Obj([k \in (DOMAIN payload.f) \cup {"input"} |->
         IF k \in DOMAIN payload.f THEN payload.f[k] ELSE effectiveInput])

\* { ...payload, input: effectiveInput }: the input key is written last.
SpreadWithInput(payload, effectiveInput) ==
  Obj([k \in (DOMAIN payload.f) \cup {"input"} |->
         IF k = "input" THEN effectiveInput ELSE payload.f[k]])

\* { input: effectiveInput, value: item }
Boxed(effectiveInput, item) ==
  Obj([k \in {"input", "value"} |->
         IF k = "input" THEN effectiveInput ELSE item])

\* { input: part }, the payload of a flow call
WrapInput(part) == Obj([k \in {"input"} |-> part])

----------------------------------------------------------------------------
\* Response merger

isPlainObject(value) == value.t = "obj"

\* A variant of mergeInputWithFlowPayload without the case of an array of
\* one plain record: every array is mapped item by item.
mergeWithoutCollapse(input, payload) ==
  LET effectiveInput == IF Nullish(input) THEN Null ELSE input
      MergeItem(item) ==
        IF isPlainObject(item)
        THEN SpreadWithInput(item, effectiveInput)
        ELSE Boxed(effectiveInput, item)
  IN  IF IsArray(payload)
      THEN Arr([i \in 1..Len(payload.e) |-> MergeItem(payload.e[i])])
      ELSE MergeItem(payload)

mergeInputWithFlowPayload(input, payload) ==
  LET effectiveInput == IF Nullish(input) THEN Null ELSE input
      MergeItem(item) ==
        IF isPlainObject(item)
        THEN SpreadWithInput(item, effectiveInput)
        ELSE Boxed(effectiveInput, item)
  IN  IF IsArray(payload)
      THEN IF Len(payload.e) = 1 /\ isPlainObject(payload.e[1])
           THEN SpreadWithInput(payload.e[1], effectiveInput)
           ELSE Arr([i \in 1..Len(payload.e) |-> MergeItem(payload.e[i])])
      ELSE MergeItem(payload)

\* A variant of pairInputsWithResponses that merges every part with the
\* whole response, array or not.
pairInputsPerPart(parts, responses) ==
  Arr([i \in 1..Len(parts) |-> mergeInputWithFlowPayload(parts[i], responses)])

\* A variant of pairInputsWithResponses that pairs every item of an array
\* with the first part.
pairInputsFirstPart(parts, responses) ==
  IF IsArray(responses)
  THEN Arr([i \in 1..Len(responses.e) |->
              mergeInputWithFlowPayload(
                IF 1 <= Len(parts) THEN parts[1] ELSE Undefined,
                responses.e[i])])
  ELSE Arr([i \in 1..Len(parts) |->
              mergeInputWithFlowPayload(parts[i], responses)])

\* parts is the sequence of the request's parts, responses a JavaScript
\* value; parts[index] is undefined past the end of parts.
pairInputsWithResponses(parts, responses) ==
  IF IsArray(responses)
  THEN Arr([i \in 1..Len(responses.e) |->
              mergeInputWithFlowPayload(
                IF i <= Len(parts) THEN parts[i] ELSE Undefined,
                responses.e[i])])
  ELSE Arr([i \in 1..Len(parts) |->
              mergeInputWithFlowPayload(parts[i], responses)])

----------------------------------------------------------------------------
\* Pricing (calcPriceWithRules)

\* A JavaScript number that may be NaN.
NaN == [nan |-> TRUE, n |-> 0]

Finite(n) == [nan |-> FALSE, n |-> n]

\* Number(s) for the strings the model uses: a decimal literal is its value,
\* the empty and the blank string are 0, any other text is NaN.
StringToNumber(s) ==
  CASE s = "12" -> Finite(12)
    [] s = "3" -> Finite(3)
    [] s = "" -> Finite(0)
    [] s = " " -> Finite(0)
    [] OTHER -> NaN

\* Number(String(item)) for an array's only item (Array.prototype.join prints
\* null and undefined as the empty string, true as "true").
RECURSIVE ToNumber(_)
ToNumber(value) ==
  CASE value.t = "num" -> Finite(value.n)
    [] value.t = "str" -> StringToNumber(value.s)
    [] value.t = "bool" -> Finite(IF value.b THEN 1 ELSE 0)
    [] value.t = "null" -> Finite(0)
    [] value.t = "undefined" -> NaN
    [] value.t = "obj" -> NaN
    [] value.t = "arr" ->
         IF Len(value.e) = 0 THEN Finite(0)
         ELSE IF Len(value.e) > 1 THEN NaN
         ELSE IF Nullish(value.e[1]) THEN Finite(0)
         ELSE IF value.e[1].t = "bool" THEN NaN
         ELSE ToNumber(value.e[1])

\* typeof raw === "number" ? raw : Number(raw) || 0
CoerceAmount(raw) ==
  IF raw.t = "num" THEN raw.n
  ELSE LET c == ToNumber(raw) IN IF c.nan \/ c.n = 0 THEN 0 ELSE c.n

\* A variant of FirstDefined that reads the second field first: b ?? a ?? 0.
FirstDefinedFallbackFirst(a, b) ==
  IF ~Nullish(b) THEN b ELSE IF ~Nullish(a) THEN a ELSE Num(0)

\* a ?? b ?? 0
FirstDefined(a, b) == IF ~Nullish(a) THEN a ELSE IF ~Nullish(b) THEN b ELSE Num(0)

\* Boolean(value)
Truthy(value) ==
  CASE value.t = "bool" -> value.b
    [] value.t = "num" -> value.n # 0
    [] value.t = "str" -> value.s # ""
    [] value.t \in {"null", "undefined"} -> FALSE
    [] OTHER -> TRUE

PricingSummary(part, markupRes, discountRes, manufactRes) ==
  LET markupAmountRaw ==
        FirstDefined(Get(markupRes, "markupAmount"), Get(markupRes, "markup"))
      discountAmountRaw ==
        FirstDefined(Get(discountRes, "discountValue"), Get(discountRes, "discount"))
      markupAmount == CoerceAmount(markupAmountRaw)
      discountAmount == CoerceAmount(discountAmountRaw)
      finalPrice == part.f.basePrice.n + markupAmount - discountAmount
      manufacturable == Truthy(Get(manufactRes, "isFeasible"))
  IN  Obj([k \in {"markupAmount", "discountAmount", "finalPrice", "manufacturable"} |->
             CASE k = "markupAmount" -> Num(markupAmount)
               [] k = "discountAmount" -> Num(discountAmount)
               [] k = "finalPrice" -> Num(finalPrice)
               [] OTHER -> Bool(manufacturable)])

\* The record calcPriceWithRules resolves to once its three calls resolved.
calcPriceWithRules(part, markupRes, discountRes, manufactRes) ==
  Obj([k \in {"input", "outputs", "summary"} |->
         CASE k = "input" -> part
           [] k = "outputs" ->
                Obj([r \in {"markup", "discount", "manufacturability"} |->
                       CASE r = "markup" -> markupRes
                         [] r = "discount" -> discountRes
                         [] OTHER -> manufactRes])
           [] OTHER -> PricingSummary(part, markupRes, discountRes, manufactRes)])

----------------------------------------------------------------------------
\* Configuration and remote calls

\* The identifiers read from the process environment, one name each.
markupRuleId == "MARKUP_RULE_ID"

discountRuleId == "DISCOUNT_RULE_ID"

manufactRuleId == "MANUFACTUR_RULE_ID"

pricingFlowId == "PRICING_FLOW_ID"

\* A pending dr.solve(id, payload)
Solve(id, payload) ==
  [id |-> id, payload |-> payload, st |-> "pending", res |-> Undefined]

\* The three calls of calcPriceWithRules(part), in the order it issues them.
RuleCallsOf(part) ==
  << Solve(markupRuleId, part), Solve(discountRuleId, part), Solve(manufactRuleId, part) >>

\* parts.map(calcPriceWithRules): the calls of part i are 3i-2, 3i-1, 3i.
RECURSIVE RuleCalls(_)
RuleCalls(ps) ==
  IF ps = << >> THEN << >>
  ELSE RuleCalls(SubSeq(ps, 1, Len(ps) - 1)) \o RuleCallsOf(ps[Len(ps)])

\* A variant of calcPriceViaFlow that sends the part itself.
calcPriceViaFlowUnwrapped(part) == Solve(pricingFlowId, part)

\* calcPriceViaFlow(part)
calcPriceViaFlow(part) == Solve(pricingFlowId, WrapInput(part))

\* parts.map(calcPriceViaFlow)
FlowCalls(ps) == [i \in 1..Len(ps) |-> calcPriceViaFlow(ps[i])]

\* calcPriceViaFlowBatch(parts)
calcPriceViaFlowBatch(ps) ==
  Solve(pricingFlowId, Arr([i \in 1..Len(ps) |-> WrapInput(ps[i])]))

\* The part whose calcPriceWithRules issued rule call k.
TaskOf(k) == ((k - 1) \div 3) + 1

----------------------------------------------------------------------------
\* Responses

Text(s) == [t |-> "text", s |-> s]

\* new Response(body, { status })
Response(status, body) == [status |-> status, body |-> body]

\* Response.json(value)
JsonResponse(value) == Response(200, [t |-> "json", v |-> value])

\* A thrown Error carries a message; any other thrown value read through
\* err?.message gives undefined.
ErrorOf(message) == [isError |-> TRUE, message |-> Str(message)]

NonErrorThrown == [isError |-> FALSE, message |-> Undefined]

\* A variant of ErrorResponse that never surfaces the message.
ErrorResponseGeneric(err) == Response(500, Text("Error"))

\* new Response(err?.message ?? "Error", { status: 500 })
ErrorResponse(err) ==
  Response(500, Text(IF Nullish(err.message) THEN "Error" ELSE err.message.s))

\* serveHtml()
serveHtml(fileExists) ==
  IF fileExists THEN Response(200, [t |-> "file"])
  ELSE Response(500, Text("HTML file not found"))

\* The promise of one calcPriceWithRules(part). A rejected task's reason is
\* not kept: it is handed to the outer Promise.all in the step that rejects
\* the task, and nothing reads it later.
PendingTask == [st |-> "pending", val |-> Undefined]

\* A variant of RulesResults that lists the values last task first.
RulesResultsReversed(ts) == Arr([i \in 1..Len(ts) |-> ts[Len(ts) + 1 - i].val])

\* Promise.all over the parts' tasks, once every one is fulfilled: the
\* values in the order of the tasks.
RulesResults(ts) == Arr([i \in 1..Len(ts) |-> ts[i].val])

\* Promise.all over the calls of parts.map(calcPriceViaFlow), once every one
\* is fulfilled.
FlowRawResults(cs) == Arr([i \in 1..Len(cs) |-> cs[i].res])

----------------------------------------------------------------------------
\* Inputs: requests, and what the remote service answers

\* A Part with the five required fields.
Part(basePrice) ==
  Obj([basePrice |-> Num(basePrice), method |-> Str("CNC"),
       material |-> Str("Aluminum"), quantity |-> Num(50),
       customerTier |-> Str("Gold")])

\* The part arrays of the request bodies: for every length up to MaxParts, n
\* parts of different prices in ascending and in descending order.
PartLists ==
  {[i \in 1..n |-> Part(100 * i)] : n \in 0..MaxParts}
    \cup {[i \in 1..n |-> Part(100 * (n + 1 - i))] : n \in 0..MaxParts}

SeqsUpTo(S, n) == UNION {[1..k -> S] : k \in 0..n}

\* A request body: text that is no JSON, a JSON value that is no array, or
\* an array of parts.
InvalidJson == [t |-> "invalid"]

Bodies ==
  {InvalidJson, Null, Num(7), Part(100)}
    \cup {Arr(ps) : ps \in PartLists}

Methods == {"GET", "POST", "PUT"}

Paths == {"/", "/favicon.ico", "/rules", "/flow", "/other"}

Requests == [method : Methods, path : Paths, batch : BOOLEAN, body : Bodies]

NoRequest == [method |-> "", path |-> "", batch |-> FALSE, body |-> Undefined]

\* What a rule call of the given rule may resolve to.
RuleResults(id) ==
  CASE id = markupRuleId -> {Obj([markupAmount |-> Num(10)])}
    [] id = discountRuleId -> {Obj([discountValue |-> Num(5)])}
    [] OTHER -> {Obj([isFeasible |-> Bool(TRUE)])}

\* A flow result that echoes a stale input, and one that does not.
FlowObjA == Obj([price |-> Num(105), input |-> Str("stale")])

FlowObjB == Obj([price |-> Num(260)])

\* What a flow call for one part may resolve to: a record, an array of one
\* record, a scalar, null, an empty array, an array of several items.
FlowResults ==
  {FlowObjA, FlowObjB, Arr(<<FlowObjA>>), Num(42), Null, Arr(<< >>),
   Arr(<<FlowObjB, Num(7)>>)}

\* The items of a batch flow call's array result.
BatchItems ==
  {FlowObjA, FlowObjB, Num(42), Arr(<<FlowObjA>>), Arr(<< >>),
   Arr(<<FlowObjB, Num(7)>>)}

\* What the batch flow call may resolve to: any array of up to MaxParts + 1
\* items, or a value that is no array.
BatchResults ==
  {FlowObjA, Num(42), Null}
    \cup {Arr(items) : items \in SeqsUpTo(BatchItems, MaxParts + 1)}

\* What a failed remote call may reject with.
Errors == {ErrorOf("solver unreachable"), ErrorOf(""), NonErrorThrown}

----------------------------------------------------------------------------
\* State

VARIABLES
  pc,            \* where the fetch handler is: idle, body, rules, flow, batch, done
  req,           \* the request being served
  parts,         \* the parsed body
  calls,         \* the remote calls issued, in the order issued
  tasks,         \* /rules: the promise of calcPriceWithRules(parts[i])
  responses,     \* the responses sent for the request
  firstFailure   \* history: the reason of the first remote call to fail

vars == << pc, req, parts, calls, tasks, responses, firstFailure >>

Init ==
  /\ pc = "idle"
  /\ req = NoRequest
  /\ parts = << >>
  /\ calls = << >>
  /\ tasks = << >>
  /\ responses = << >>
  /\ firstFailure = [any |-> FALSE, err |-> NonErrorThrown]

\* return response
Respond(response) ==
  /\ responses' = Append(responses, response)
  /\ pc' = "done"

\* A variant of RouteGet that serves the page for every path but the
\* favicon.
RouteGetHtmlFallback(path, fileExists) ==
  IF path = "/favicon.ico" THEN Response(404, [t |-> "empty"])
  ELSE serveHtml(fileExists)

\* The GET branch of fetch: a missing favicon is answered with an empty body.
RouteGet(path, fileExists) ==
  IF path = "/" THEN serveHtml(fileExists)
  ELSE IF path = "/favicon.ico" THEN Response(404, [t |-> "empty"])
  ELSE Response(404, Text("Not Found"))

\* A variant of BodyRejection in which the body is read inside the main try
\* block, whose catch answers 500 with the message.
BodyRejectionByMainCatch == ErrorResponse(ErrorOf("Body must be an array"))

\* The catch block around req.json() and the Array.isArray test
BodyRejection == Response(400, Text("Body must be a JSON array of parts"))

\* fetch(req), up to the await of req.json()
Receive(r, fileExists) ==
  /\ pc = "idle"
  /\ req' = r
  /\ IF r.method = "GET"
     THEN Respond(RouteGet(r.path, fileExists))
     ELSE IF r.method # "POST"
     THEN Respond(Response(405, Text("Method Not Allowed")))
     ELSE pc' = "body" /\ UNCHANGED responses
  /\ UNCHANGED << parts, calls, tasks, firstFailure >>

\* fetch(req), from the body read to the first await of remote calls
ReadBody ==
  /\ pc = "body"
  /\ IF req.body.t = "invalid" \/ ~IsArray(req.body)
     THEN /\ Respond(BodyRejection)
          /\ UNCHANGED << parts, calls, tasks >>
     ELSE LET ps == req.body.e IN
          /\ parts' = ps
          /\ CASE req.path = "/rules" ->
                    /\ calls' = RuleCalls(ps)
                    /\ tasks' = [i \in 1..Len(ps) |-> PendingTask]
                    /\ IF Len(ps) = 0
                       THEN Respond(JsonResponse(RulesResults(<< >>)))
                       ELSE pc' = "rules" /\ UNCHANGED responses
               [] req.path = "/flow" /\ req.batch ->
                    /\ calls' = << calcPriceViaFlowBatch(ps) >>
                    /\ pc' = "batch"
                    /\ UNCHANGED << tasks, responses >>
               [] req.path = "/flow" /\ ~req.batch ->
                    /\ calls' = FlowCalls(ps)
                    /\ IF Len(ps) = 0
                       THEN Respond(JsonResponse(
                              pairInputsWithResponses(ps, FlowRawResults(<< >>))))
                       ELSE pc' = "flow" /\ UNCHANGED responses
                    /\ UNCHANGED tasks
               [] OTHER ->
                    /\ Respond(Response(404, Text("Not Found")))
                    /\ UNCHANGED << calls, tasks >>
  /\ UNCHANGED << req, firstFailure >>

Pending(k) == k \in DOMAIN calls /\ calls[k].st = "pending"

Resolved(cs, k, result) == [cs EXCEPT ![k].st = "ok", ![k].res = result]

Rejected(cs, k) == [cs EXCEPT ![k].st = "failed"]

NoteFailure(err) ==
  firstFailure' = IF firstFailure.any THEN firstFailure ELSE [any |-> TRUE, err |-> err]

\* A rule call resolves: the inner Promise.all of its part resolves once all
\* three have, and the outer Promise.all once every part's task has.
RuleCallResolves(k, result) ==
  /\ req.path = "/rules"
  /\ Pending(k)
  /\ LET cs == Resolved(calls, k, result)
         i == TaskOf(k)
         ts == IF /\ tasks[i].st = "pending"
                  /\ \A j \in (3 * i - 2)..(3 * i) : cs[j].st = "ok"
               THEN [tasks EXCEPT ![i] =
                       [st |-> "fulfilled",
                        val |-> calcPriceWithRules(parts[i], cs[3 * i - 2].res,
                                                   cs[3 * i - 1].res, cs[3 * i].res)]]
               ELSE tasks
     IN  /\ calls' = cs
         /\ tasks' = ts
         /\ IF pc = "rules" /\ \A j \in DOMAIN ts : ts[j].st = "fulfilled"
            THEN Respond(JsonResponse(RulesResults(ts)))
            ELSE UNCHANGED << pc, responses >>
  /\ UNCHANGED << req, parts, firstFailure >>

\* A variant of RuleCallRejects in which every rejected call reaches the
\* catch block, settled or not.
RuleCallRejectsEveryTime(k, err) ==
  /\ req.path = "/rules"
  /\ Pending(k)
  /\ calls' = Rejected(calls, k)
  /\ tasks' = [tasks EXCEPT ![TaskOf(k)] = [st |-> "rejected", val |-> Undefined]]
  /\ Respond(ErrorResponse(err))
  /\ NoteFailure(err)
  /\ UNCHANGED << req, parts >>

\* A rule call rejects: the inner Promise.all of its part rejects with the
\* reason unless it has rejected before, the outer Promise.all rejects unless
\* it is settled, and the catch block answers.
RuleCallRejects(k, err) ==
  /\ req.path = "/rules"
  /\ Pending(k)
  /\ LET i == TaskOf(k)
         first == tasks[i].st = "pending"
     IN  /\ calls' = Rejected(calls, k)
         /\ tasks' = IF first
                     THEN [tasks EXCEPT ![i] =
                             [st |-> "rejected", val |-> Undefined]]
                     ELSE tasks
         /\ IF pc = "rules" /\ first
            THEN Respond(ErrorResponse(err))
            ELSE UNCHANGED << pc, responses >>
  /\ NoteFailure(err)
  /\ UNCHANGED << req, parts >>

\* A call of parts.map(calcPriceViaFlow) resolves.
FlowCallResolves(k, result) ==
  /\ req.path = "/flow" /\ ~req.batch
  /\ Pending(k)
  /\ LET cs == Resolved(calls, k, result)
     IN  /\ calls' = cs
         /\ IF pc = "flow" /\ \A j \in DOMAIN cs : cs[j].st = "ok"
            THEN Respond(JsonResponse(
                   pairInputsWithResponses(parts, FlowRawResults(cs))))
            ELSE UNCHANGED << pc, responses >>
  /\ UNCHANGED << req, parts, tasks, firstFailure >>

\* A call of parts.map(calcPriceViaFlow) rejects.
FlowCallRejects(k, err) ==
  /\ req.path = "/flow" /\ ~req.batch
  /\ Pending(k)
  /\ calls' = Rejected(calls, k)
  /\ IF pc = "flow"
     THEN Respond(ErrorResponse(err))
     ELSE UNCHANGED << pc, responses >>
  /\ NoteFailure(err)
  /\ UNCHANGED << req, parts, tasks >>

\* The call of calcPriceViaFlowBatch(parts) resolves.
BatchCallResolves(result) ==
  /\ pc = "batch"
  /\ Pending(1)
  /\ calls' = Resolved(calls, 1, result)
  /\ Respond(JsonResponse(pairInputsWithResponses(parts, result)))
  /\ UNCHANGED << req, parts, tasks, firstFailure >>

\* The call of calcPriceViaFlowBatch(parts) rejects.
BatchCallRejects(err) ==
  /\ pc = "batch"
  /\ Pending(1)
  /\ calls' = Rejected(calls, 1)
  /\ Respond(ErrorResponse(err))
  /\ NoteFailure(err)
  /\ UNCHANGED << req, parts, tasks >>

Next ==
  \/ \E r \in Requests, fileExists \in BOOLEAN : Receive(r, fileExists)
  \/ ReadBody
  \/ \E k \in DOMAIN calls : \E result \in RuleResults(calls[k].id) :
       RuleCallResolves(k, result)
  \/ \E k \in DOMAIN calls, err \in Errors : RuleCallRejects(k, err)
  \/ \E k \in DOMAIN calls, result \in FlowResults : FlowCallResolves(k, result)
  \/ \E k \in DOMAIN calls, err \in Errors : FlowCallRejects(k, err)
  \/ \E result \in BatchResults : BatchCallResolves(result)
  \/ \E err \in Errors : BatchCallRejects(err)

Spec == Init /\ [][Next]_vars

----------------------------------------------------------------------------
\* Pricing under every shape of rule result: requests are POST /rules with
\* one part, and the rule calls resolve to results whose fields hold numbers,
\* strings, booleans, null, records and arrays, or lack the fields.

AmountValues ==
  {Num(10), Num(0), Num(-4), Str("12"), Str("abc"), Str(""), Bool(TRUE),
   Bool(FALSE), Null, EmptyObj, Arr(<< >>), Arr(<<Num(5)>>),
   Arr(<<Num(1), Num(2)>>)}

FallbackValues == {Num(7), Str("3"), Str("abc")}

\* Records with any subset of the two keys, and results that are no record.
AmountResults(key, fallbackKey) ==
  {Obj([k \in ks |-> IF k = key THEN a ELSE b]) :
     ks \in SUBSET {key, fallbackKey}, a \in AmountValues, b \in FallbackValues}
    \cup {Null, Num(9), Arr(<< >>)}

FeasibleResults ==
  {Obj([isFeasible |-> v]) : v \in {Bool(TRUE), Bool(FALSE), Str("yes"), Num(0), Null}}
    \cup {EmptyObj, Null}

PriceRuleResults(id) ==
  CASE id = markupRuleId -> AmountResults("markupAmount", "markup")
    [] id = discountRuleId -> AmountResults("discountValue", "discount")
    [] OTHER -> FeasibleResults

PriceRequests ==
  [method : {"POST"}, path : {"/rules"}, batch : {FALSE},
   body : {Arr(<<Part(100)>>), Arr(<<Part(0)>>)}]

NextPrice ==
  \/ \E r \in PriceRequests : Receive(r, TRUE)
  \/ ReadBody
  \/ \E k \in DOMAIN calls : \E result \in PriceRuleResults(calls[k].id) :
       RuleCallResolves(k, result)
  \/ \E k \in DOMAIN calls, err \in Errors : RuleCallRejects(k, err)

SpecPrice == Init /\ [][NextPrice]_vars

----------------------------------------------------------------------------
\* Properties

\* The request is a POST whose body parsed to an array, past the body read.
PostedArray == req.method = "POST" /\ IsArray(req.body) /\ pc \notin {"idle", "body"}

AllCallsOk == \A k \in DOMAIN calls : calls[k].st = "ok"

SomeCallFailed == \E k \in DOMAIN calls : calls[k].st = "failed"

\* Exactly one response was sent, a 200 with a JSON body.
AnsweredJson ==
  /\ Len(responses) = 1
  /\ responses[1].status = 200
  /\ responses[1].body.t = "json"

BatchRoute == PostedArray /\ req.path = "/flow" /\ req.batch

FlowRoute == PostedArray /\ req.path = "/flow" /\ ~req.batch

\* [ element ] with element a plain record
SingletonRecord(raw) == raw.t = "arr" /\ Len(raw.e) = 1 /\ raw.e[1].t = "obj"

\* out is the record { ...element, input }
MergedRecord(out, element, input) ==
  /\ out.t = "obj"
  /\ DOMAIN out.f = (DOMAIN element.f) \cup {"input"}
  /\ out.f["input"] = input
  /\ \A k \in (DOMAIN element.f) \ {"input"} : out.f[k] = element.f[k]

\* out is the record { input, value }
BoxedValue(out, value, input) ==
  /\ out.t = "obj"
  /\ DOMAIN out.f = {"input", "value"}
  /\ out.f["input"] = input
  /\ out.f["value"] = value

\* C1: a POST /rules whose body is an array of N parts and whose 3N rule
\* calls all succeeded is answered once, with 200 and an array of N records,
\* record i carrying the i-th part of the body as its input.
ThmRulesOrder ==
  (PostedArray /\ req.path = "/rules" /\ AllCallsOk) =>
    /\ AnsweredJson
    /\ LET out == responses[1].body.v
       IN  /\ out.t = "arr"
           /\ Len(out.e) = Len(req.body.e)
           /\ \A i \in 1..Len(req.body.e) :
                out.e[i].t = "obj" /\ out.e[i].f["input"] = req.body.e[i]

\* Two different parts were priced and answered in the order of the body.
WitRulesOrder ==
  /\ PostedArray /\ req.path = "/rules" /\ AllCallsOk
  /\ Len(req.body.e) = 2
  /\ req.body.e[1] # req.body.e[2]
  /\ AnsweredJson
  /\ responses[1].body.v.e[2].f["input"] = req.body.e[2]

\* C2: once a rule call of a POST /rules request has failed, the request has
\* exactly one response, a 500 whose body is the message of the first call
\* that failed, or "Error" when what was thrown carries no message; no
\* pricing record is returned, whatever the other calls do before or after.
ThmRulesFailFast ==
  (req.path = "/rules" /\ SomeCallFailed) =>
    responses =
      << [status |-> 500,
          body |-> [t |-> "text",
                    s |-> IF firstFailure.err.isError
                          THEN firstFailure.err.message.s
                          ELSE "Error"]] >>

\* Rule 2 of part 1 failed with a message, a later call failed with another
\* reason, and all three calls of part 2 succeeded.
WitRulesFailFast ==
  /\ req.path = "/rules"
  /\ Len(parts) = 2
  /\ calls[2].st = "failed"
  /\ calls[3].st = "failed"
  /\ firstFailure.err = ErrorOf("solver unreachable")
  /\ tasks[2].st = "fulfilled"
  /\ Len(responses) = 1
  /\ responses[1].status = 500

\* The raw result of the batch flow call, and the JSON body of the answer.
BatchRaw == calls[1].res

JsonOut == responses[1].body.v

BatchAnswered == BatchRoute /\ calls[1].st = "ok"

BatchMatches ==
  /\ BatchAnswered
  /\ BatchRaw.t = "arr"
  /\ Len(req.body.e) > 1
  /\ Len(BatchRaw.e) = Len(req.body.e)

\* C4 as claimed: with a raw array of N items for N > 1 parts, output i is a
\* record carrying part i under input, for every i, and the answer is a list
\* of N outputs.
OrigBatchPairing ==
  BatchMatches =>
    /\ AnsweredJson
    /\ JsonOut.t = "arr"
    /\ Len(JsonOut.e) = Len(req.body.e)
    /\ \A i \in 1..Len(req.body.e) :
         JsonOut.e[i].t = "obj" /\ JsonOut.e[i].f["input"] = req.body.e[i]

\* out is what merging item with input gives: a record carrying the input
\* for a plain record, a scalar or an array of one plain record; for any
\* other array a list of as many records, each carrying the input.
MergedItem(out, item, input) ==
  CASE item.t = "obj" -> MergedRecord(out, item, input)
    [] SingletonRecord(item) -> MergedRecord(out, item.e[1], input)
    [] item.t = "arr" /\ ~SingletonRecord(item) ->
         /\ out.t = "arr"
         /\ Len(out.e) = Len(item.e)
         /\ \A j \in 1..Len(item.e) :
              IF item.e[j].t = "obj"
              THEN MergedRecord(out.e[j], item.e[j], input)
              ELSE BoxedValue(out.e[j], item.e[j], input)
    [] OTHER -> BoxedValue(out, item, input)

\* C4 as amended: with a raw array of N items for N > 1 parts, the answer is
\* a list of N outputs (the response as a whole is never collapsed), and
\* output i is item i merged with part i: a record carrying part i under
\* input unless item i is an array other than one plain record, and then a
\* list of records each carrying part i (no record at all for an empty item).
ThmBatchPairing ==
  BatchMatches =>
    /\ AnsweredJson
    /\ JsonOut.t = "arr"
    /\ Len(JsonOut.e) = Len(req.body.e)
    /\ \A i \in 1..Len(req.body.e) :
         MergedItem(JsonOut.e[i], BatchRaw.e[i], req.body.e[i])

\* Two different parts, a raw array of a record that echoes a stale input
\* and of an empty array: output 1 carries part 1, output 2 is an empty list.
WitBatchPairing ==
  /\ BatchMatches
  /\ Len(req.body.e) = 2
  /\ BatchRaw = Arr(<<FlowObjA, Arr(<< >>)>>)
  /\ AnsweredJson
  /\ JsonOut.e[1].f["input"] = req.body.e[1]
  /\ JsonOut.e[2] = Arr(<< >>)

\* The flow call of a one-part request resolved to a plain record, an array
\* of one plain record, or a scalar.
SinglePartAnswered ==
  /\ PostedArray /\ req.path = "/flow"
  /\ Len(req.body.e) = 1
  /\ calls[1].st = "ok"
  /\ calls[1].res.t # "arr" \/ SingletonRecord(calls[1].res)

\* C5: for a one-part request to /flow, batch or not, whose flow call
\* resolved to a plain record, an array of one plain record or a scalar, the
\* answer holds one record that carries the part under input, with the
\* payload's other fields (or the scalar under value); an input field of the
\* payload is overwritten by the part.
ThmSinglePartRoundTrip ==
  SinglePartAnswered =>
    /\ AnsweredJson
    /\ JsonOut.t = "arr"
    /\ Len(JsonOut.e) = 1
    /\ MergedItem(JsonOut.e[1], calls[1].res, req.body.e[1])
    /\ JsonOut.e[1].t = "obj"
    /\ JsonOut.e[1].f["input"] = req.body.e[1]

\* A per-part call resolved to an array of one record that echoes a stale
\* input; the output carries the part.
WitSinglePartRoundTrip ==
  /\ SinglePartAnswered
  /\ ~req.batch
  /\ calls[1].res = Arr(<<FlowObjA>>)
  /\ AnsweredJson
  /\ JsonOut.e[1].f["input"] = req.body.e[1]
  /\ JsonOut.e[1].f["price"] = Num(105)

AmountField(res, key, fallbackKey) ==
  LET Has(k) == res.t = "obj" /\ k \in DOMAIN res.f /\ res.f[k].t # "null"
  IN  IF Has(key) THEN res.f[key]
      ELSE IF Has(fallbackKey) THEN res.f[fallbackKey]
      ELSE Undefined

\* A decimal literal in a string
NumericText == {"12", "3"}

\* A field that is no number, and no string holding one
NonNumeric(field) ==
  field.t \in {"bool", "obj", "arr"} \/ (field.t = "str" /\ field.s \notin NumericText)

\* finalPrice = basePrice + markupAmount - discountAmount in the summary of
\* part i
PriceEquation(i) ==
  LET summary == tasks[i].val.f["summary"].f
  IN  summary["finalPrice"].n =
        parts[i].f["basePrice"].n + summary["markupAmount"].n
          - summary["discountAmount"].n

\* C7 as claimed: the summary of every priced part satisfies finalPrice =
\* basePrice + markupAmount - discountAmount, markupAmount is read from
\* markupAmount else markup and discountAmount from discountValue else
\* discount, a numeric field counts with its value, and each amount is 0 when
\* the field is missing or non-numeric.
OrigFinalPrice ==
  \A i \in DOMAIN tasks :
    tasks[i].st = "fulfilled" =>
      LET summary == tasks[i].val.f["summary"].f
          Claimed(amount, field) ==
            /\ field.t = "undefined" => amount = 0
            /\ field.t = "num" => amount = field.n
            /\ NonNumeric(field) => amount = 0
      IN  /\ PriceEquation(i)
          /\ Claimed(summary["markupAmount"].n,
                     AmountField(calls[3 * i - 2].res, "markupAmount", "markup"))
          /\ Claimed(summary["discountAmount"].n,
                     AmountField(calls[3 * i - 1].res, "discountValue", "discount"))

\* What Number(field) || 0 gives for the fields of the model that are no
\* number: the value of a decimal literal, 1 for true, the only item of an
\* array of one number, and 0 for everything else.
CoercedAmount(field) ==
  CASE field.t = "str" /\ field.s = "12" -> 12
    [] field.t = "str" /\ field.s = "3" -> 3
    [] field.t = "bool" /\ field.b -> 1
    [] field.t = "arr" /\ Len(field.e) = 1 /\ field.e[1].t = "num" -> field.e[1].n
    [] OTHER -> 0

\* C7 as amended: the summary of every priced part satisfies finalPrice =
\* basePrice + markupAmount - discountAmount, markupAmount is read from
\* markupAmount else markup and discountAmount from discountValue else
\* discount, a numeric field counts with its value, a missing or null field
\* is 0, and any other field counts with what Number() makes of it, 0 when
\* that is not a number: true is 1, a string or one-item array holding a
\* number is that number, all else is 0.
ThmFinalPrice ==
  \A i \in DOMAIN tasks :
    tasks[i].st = "fulfilled" =>
      LET summary == tasks[i].val.f["summary"].f
          Amended(amount, field) ==
            /\ field.t = "undefined" => amount = 0
            /\ field.t = "num" => amount = field.n
            /\ field.t \notin {"undefined", "num"} => amount = CoercedAmount(field)
      IN  /\ PriceEquation(i)
          /\ Amended(summary["markupAmount"].n,
                     AmountField(calls[3 * i - 2].res, "markupAmount", "markup"))
          /\ Amended(summary["discountAmount"].n,
                     AmountField(calls[3 * i - 1].res, "discountValue", "discount"))

\* A part of price 100 whose markup result holds a text in markupAmount (and
\* a number in markup, which is not read) and whose discount result holds
\* only discount: 100 + 0 - 7 = 93.
WitFinalPrice ==
  /\ Len(tasks) = 1
  /\ tasks[1].st = "fulfilled"
  /\ parts[1] = Part(100)
  /\ calls[1].res = Obj([markupAmount |-> Str("abc"), markup |-> Num(7)])
  /\ calls[2].res = Obj([discount |-> Num(7)])
  /\ tasks[1].val.f["summary"].f["finalPrice"] = Num(93)

\* C8: a POST whose body is no JSON, or JSON that is no array, is answered
\* once, with 400, whatever its path, and no remote call is issued for it.
ThmBadBody ==
  (req.method = "POST" /\ ~IsArray(req.body)) =>
    /\ calls = << >>
    /\ pc \in {"body", "done"}
    /\ pc = "done" => Len(responses) = 1 /\ responses[1].status = 400

\* A POST to an unknown path with a body that is no JSON was answered 400.
WitBadBody ==
  /\ req.method = "POST"
  /\ req.path = "/other"
  /\ req.body = InvalidJson
  /\ pc = "done"
  /\ responses[1].status = 400

\* C9: a GET to a path other than / is answered 404; a POST with an array
\* body to a path other than /rules and /flow is answered 404 and issues no
\* remote call; any other method is answered 405 whatever path and body.
ThmRouting ==
  /\ (req.method = "GET" /\ req.path # "/") =>
       Len(responses) = 1 /\ responses[1].status = 404 /\ calls = << >>
  /\ (req.method = "POST" /\ IsArray(req.body) /\ req.path \notin {"/rules", "/flow"}) =>
       /\ calls = << >>
       /\ pc \in {"body", "done"}
       /\ pc = "done" => Len(responses) = 1 /\ responses[1].status = 404
  /\ req.method \in Methods \ {"GET", "POST"} =>
       Len(responses) = 1 /\ responses[1].status = 405 /\ calls = << >>

\* A POST of two parts to an unknown path was answered 404.
WitRouting ==
  /\ req.method = "POST"
  /\ req.path = "/other"
  /\ IsArray(req.body)
  /\ Len(req.body.e) = 2
  /\ pc = "done"
  /\ responses[1].status = 404

\* payload is { input: part }
WrapsPart(payload, part) ==
  /\ payload.t = "obj"
  /\ DOMAIN payload.f = {"input"}
  /\ payload.f["input"] = part

\* C10: a POST /flow of N parts has issued exactly N flow calls, call i with
\* payload { input: parts[i] }, and a POST /flow?batch=true exactly one flow
\* call whose payload is the list of { input: part } in the order of the
\* body; this stays so after calls have failed: none is issued again.
ThmFlowCalls ==
  /\ FlowRoute =>
       /\ Len(calls) = Len(req.body.e)
       /\ \A i \in 1..Len(req.body.e) :
            calls[i].id = pricingFlowId /\ WrapsPart(calls[i].payload, req.body.e[i])
  /\ BatchRoute =>
       /\ Len(calls) = 1
       /\ calls[1].id = pricingFlowId
       /\ calls[1].payload.t = "arr"
       /\ Len(calls[1].payload.e) = Len(req.body.e)
       /\ \A i \in 1..Len(req.body.e) :
            WrapsPart(calls[1].payload.e[i], req.body.e[i])

\* Of the two calls of a two-part request the first failed and the second
\* succeeded later: still two calls.
WitFlowCalls ==
  /\ FlowRoute
  /\ Len(req.body.e) = 2
  /\ calls[1].st = "failed"
  /\ calls[2].st = "ok"
  /\ Len(calls) = 2
  /\ responses[1].status = 500

====
